---- MODULE Spec2Model ----
(***************************************************************************)
(* Asynchronous task orchestration of the three capabilities (asr, ocr,   *)
(* pdf): the per-router tasks_store, the background workers                *)
(* process_*_task, the submission / status / download / probe endpoints    *)
(* and the synchronous endpoints, with the files they create and delete.   *)
(*                                                                         *)
(* The dispatcher is a single cooperative event loop: the code between two *)
(* awaits of a coroutine runs without interleaving, so each action below   *)
(* is one such segment (or one whole handler when its awaits touch only    *)
(* files private to the request).                                          *)
(***************************************************************************)
EXTENDS Integers, Sequences, FiniteSets, TLC

VARIABLES
    loaded,        \* per capability: the backend is held (asr, ocr: the model loaded
                   \* at construction; pdf: "import pdf2docx" succeeds now)
    tasks_store,   \* per capability: task id -> record (a Python dict)
    workers,       \* task id -> the scheduled background task and its position
    uploads,       \* the files that exist in the upload directory
    outputs,       \* output path -> "partial" | "complete" (files that exist)
    next_uuid,     \* uuid4(): the names 1 .. next_uuid - 1 are held by a file or a task
    status_log,    \* task id -> the status values written to its record, in order
    remove_calls,  \* task id -> number of os.remove calls made on its input
    unpolled,      \* the task submitted last, until a status query for it is answered (else 0)
    ev             \* the request answered (or the worker segment run) by the last step

vars == <<loaded, tasks_store, workers, uploads, outputs, next_uuid,
          status_log, remove_calls, unpolled, ev>>

\* ---------------------------------------------------------------- bounds
MaxUuid == 4
\* pages of a document, and page numbers asked for
MaxPages == 3
\* text lines the OCR backend returns for an image
MaxLines == 3
\* files of one batch recognition request
MaxFiles == 3

\* ------------------------------------------------------------- constants
Caps == {"asr", "ocr", "pdf"}

\* progress values, in tenths
P_PENDING == 0
P_STARTED_PDF == 1
P_STARTED == 3
P_BACKEND_DONE == 8
P_COMPLETED == 10

CREATED_MESSAGE == "task created"

\* an extension each capability's documentation names as supported
SupportedExt(c) ==
    CASE c = "asr" -> ".wav"
      [] c = "ocr" -> ".png"
      [] c = "pdf" -> ".pdf"

UNSUPPORTED_EXT == ".xyz"

\* the uploaded files a request to capability c draws from: the extension
\* of the filename and the content
UploadFiles(c) ==
    { [ext |-> SupportedExt(c), content |-> 1],
      [ext |-> UNSUPPORTED_EXT, content |-> 2] }

\* str(e) of the exceptions a backend call can raise
BackendErrors == {"", "backend error"}
IO_ERROR == "io error"
REMOVE_ERROR == "remove error"
\* RuntimeError raised by a service whose backend is not available
UNAVAILABLE_ERROR == "service unavailable"

\* time.time() differences reported by a backend call
Durations == {1, 2}

Null == [null |-> TRUE]
NoEvent == [op |-> "none", cap |-> "", id |-> 0, code |-> 0, body |-> Null, file |-> Null]

\* --------------------------------------------------------------- helpers
\* Python d[k] = v on a dict
SetKey(d, k, v) == (k :> v) @@ d

\* an assignment that reaches every record of the capability
StoreSetAll(store, c, id, k, v) ==
    [store EXCEPT ![c] = [i \in DOMAIN store[c] |-> SetKey(store[c][i], k, v)]]

\* an assignment that rebuilds the store around the one record
StoreSetAlone(store, c, id, k, v) ==
    [store EXCEPT ![c] = (id :> SetKey(store[c][id], k, v))]

\* tasks_store[task_id][k] = v in the router of capability c
StoreSet(store, c, id, k, v) ==
    [store EXCEPT ![c] = (id :> SetKey(store[c][id], k, v)) @@ store[c]]

\* TaskStatus(**record): result defaults to None when the dict has no such key
TaskStatus(rec) ==
    [task_id  |-> rec.task_id,
     status   |-> rec.status,
     progress |-> rec.progress,
     message  |-> rec.message,
     result   |-> IF "result" \in DOMAIN rec THEN rec.result ELSE Null]

\* is_available() of the capability's service
IsAvailable(c) == loaded[c]

\* a save that names the file after the upload alone
UploadPathByName(u, f) == [name |-> 0, ext |-> f.ext]

\* save_upload_file: uuid4 name keeping the extension of the uploaded filename
UploadPath(u, f) == [name |-> u, ext |-> f.ext]

\* artifacts named after the capability alone
OutputPathFlat(c, id) == [dir |-> "outputs", name |-> 0, ext |-> ".out"]

OutputPathShared(c, id) ==
    IF c = "pdf" THEN [dir |-> "outputs", name |-> 0, ext |-> ".docx"]
                 ELSE [dir |-> c, name |-> 0, ext |-> ".txt"]

\* the artifact of an async task: outputs/asr/<id>.txt, outputs/ocr/<id>.txt,
\* outputs/<id>.docx
OutputPath(c, id) ==
    IF c = "pdf" THEN [dir |-> "outputs", name |-> id, ext |-> ".docx"]
                 ELSE [dir |-> c, name |-> id, ext |-> ".txt"]

Exists(path) == path \in DOMAIN outputs

\* ------------------------------------------------------------------ Init
Init ==
    /\ loaded \in [Caps -> BOOLEAN]
    /\ tasks_store = [c \in Caps |-> <<>>]
    /\ workers = <<>>
    /\ uploads = {}
    /\ outputs = <<>>
    /\ next_uuid = 1
    /\ status_log = <<>>
    /\ remove_calls = <<>>
    /\ unpolled = 0
    /\ ev = NoEvent

\* ------------------------------------------------------- backend results
\* asr_service.transcribe on the file's content: the backend's text and
\* language are functions of the input, the duration is measured
Transcribe(f, d) ==
    [text |-> f.content, language |-> "zh", segments |-> <<f.content>>, duration |-> d]

\* ocr_service.recognize
Recognize(f, d) ==
    [text |-> f.content,
     results |-> <<[text |-> f.content, box |-> f.content, confidence |-> 9]>>,
     confidence |-> 9, duration |-> d]

\* pdf_service.convert into output_path
Convert(f, out, d) ==
    [output_path |-> out, page_count |-> f.content, converted_pages |-> f.content,
     word_count |-> f.content, duration |-> d]

BackendResult(c, f, out, d) ==
    CASE c = "asr" -> Transcribe(f, d)
      [] c = "ocr" -> Recognize(f, d)
      [] c = "pdf" -> Convert(f, out, d)

\* the result dict a worker stores in the record
TaskResult(c, res, out) ==
    CASE c = "asr" -> [text |-> res.text, language |-> res.language,
                       duration |-> res.duration, output_file |-> out]
      [] c = "ocr" -> [text |-> res.text, confidence |-> res.confidence,
                       duration |-> res.duration, output_file |-> out]
      [] c = "pdf" -> [output_path |-> res.output_path, page_count |-> res.page_count,
                       word_count |-> res.word_count]

\* a facade whose execute goes to the backend without asking is_available()
NoServiceGuard(c) == {}

\* the head of transcribe / recognize / convert: str(e) of the RuntimeError
\* raised when is_available() is false, nothing when the call goes on
ServiceGuard(c) ==
    IF ~IsAvailable(c) THEN {UNAVAILABLE_ERROR} ELSE {}

\* what the backend does once it is called: it returns, or raises with str(e)
BackendOutcomes ==
    {[kind |-> "ok", desc |-> ""]} \cup {[kind |-> "raise", desc |-> e] : e \in BackendErrors}

\* transcribe / recognize / convert as a function: what the call gives
\* back and whether it reached the backend handle
Execute(c, f, out, o, d) ==
    IF ServiceGuard(c) # {}
    THEN [raised |-> CHOOSE e \in ServiceGuard(c) : TRUE, backend_called |-> FALSE]
    ELSE IF o.kind = "raise"
         THEN [raised |-> o.desc, backend_called |-> TRUE]
         ELSE [returned |-> BackendResult(c, f, out, d), backend_called |-> TRUE]

\* ------------------------------------------------------ async submission
\* a submission that inserts the record as already started
NewRecordProcessing(id) ==
    [task_id |-> id, status |-> "processing", progress |-> P_STARTED,
     message |-> CREATED_MESSAGE]

\* a submission that inserts the record with the progress of a started task
NewRecordStarted(id) ==
    [task_id |-> id, status |-> "pending", progress |-> P_STARTED,
     message |-> CREATED_MESSAGE]

\* the record a submission inserts
NewRecord(id) ==
    [task_id |-> id, status |-> "pending", progress |-> P_PENDING,
     message |-> CREATED_MESSAGE]

\* a submission endpoint without the availability check
SubmitWithoutCheck(c, f) == 0

\* POST /<capability>/async: the status code of the HTTPException raised
\* before anything is done, 0 when the request is admitted
SubmitRejection(c, f) ==
    IF ~IsAvailable(c) THEN 503 ELSE 0

RequestEvent(op, c, id, code, body, f) ==
    [op |-> op, cap |-> c, id |-> id, code |-> code, body |-> body, file |-> f]

\* one registry that all three routers share
RegisterEverywhere(store, c, id, rec) ==
    [k \in Caps |-> (id :> rec) @@ store[k]]

\* tasks_store[task_id] = {...} on the tasks_store of the router's own module
Register(store, c, id, rec) ==
    [store EXCEPT ![c] = (id :> rec) @@ store[c]]

\* POST /<capability>/async
submit_async(c, f) ==
    IF SubmitRejection(c, f) # 0
    THEN UNCHANGED vars
    ELSE /\ next_uuid + 1 <= MaxUuid
         /\ \E save \in {"ok", "open_error", "write_error"} :
              LET path == UploadPath(next_uuid, f)
                  id   == next_uuid + 1
              IN  IF save = "ok"
                  THEN /\ uploads' = uploads \cup {path}
                       /\ next_uuid' = next_uuid + 2
                       /\ tasks_store' = Register(tasks_store, c, id, NewRecord(id))
                       /\ workers' = (id :> [cap |-> c, pc |-> "scheduled", path |-> path,
                                              file |-> f, res |-> Null, caught |-> Null,
                                              response |-> TaskStatus(NewRecord(id))])
                                      @@ workers
                       /\ status_log' = (id :> <<"pending">>) @@ status_log
                       /\ remove_calls' = (id :> 0) @@ remove_calls
                       /\ unpolled' = id
                       /\ ev' = RequestEvent("submit", c, id, 200,
                                             TaskStatus(NewRecord(id)), Null)
                       /\ UNCHANGED <<loaded, outputs>>
                  ELSE \* the exception leaves the handler: 500, nothing registered
                       /\ uploads' = IF save = "write_error" THEN uploads \cup {path}
                                                             ELSE uploads
                       /\ next_uuid' = IF save = "write_error" THEN next_uuid + 1
                                                                ELSE next_uuid
                       /\ ev' = RequestEvent("submit", c, 0, 500, Null, Null)
                       /\ UNCHANGED <<loaded, tasks_store, workers, outputs,
                                      status_log, remove_calls, unpolled>>

\* ------------------------------------------------------------ the worker
\* an except clause that sets the status and drops str(e)
MarkFailedStatusOnly(store, c, id, desc) ==
    StoreSet(store, c, id, "status", "failed")

\* an except clause that swallows the exception and writes nothing
LeaveRecord(store, c, id, desc) == store

\* an except clause that also resets the progress and drops the result
MarkFailedReset(store, c, id, desc) ==
    StoreSet(StoreSet(StoreSet(StoreSet(store, c, id, "status", "failed"),
                               c, id, "message", desc),
                      c, id, "progress", P_PENDING),
             c, id, "result", Null)

\* except Exception as e: status = "failed"; message = str(e)
MarkFailed(store, c, id, desc) ==
    StoreSet(StoreSet(store, c, id, "status", "failed"), c, id, "message", desc)

\* a worker that calls the backend without touching the record
SkipProcessing(store, c, id) == store

\* a worker that starts with the progress of a finished task
MarkProcessingFull(store, c, id) ==
    StoreSet(StoreSet(store, c, id, "status", "processing"), c, id, "progress",
             P_COMPLETED)

\* status = "processing"; progress = 0.3 (0.1 for pdf)
MarkProcessing(store, c, id) ==
    StoreSet(StoreSet(store, c, id, "status", "processing"), c, id, "progress",
             IF c = "pdf" THEN P_STARTED_PDF ELSE P_STARTED)

\* a worker that completes without the final progress
MarkCompletedNoProgress(store, c, id, result) ==
    StoreSet(StoreSet(store, c, id, "status", "completed"), c, id, "result", result)

\* status = "completed"; progress = 1.0; result = {...}
MarkCompleted(store, c, id, result) ==
    StoreSet(StoreSet(StoreSet(store, c, id, "status", "completed"),
                      c, id, "progress", P_COMPLETED),
             c, id, "result", result)

WorkerEvent == RequestEvent("worker", "", 0, 0, Null, Null)

\* the coroutine returns normally
Returned(t) == [workers EXCEPT ![t].pc = "done", ![t].res = Null]

\* the except clause caught an exception of the given step and returned
Caught(t, step, desc) ==
    [workers EXCEPT ![t].pc = "done", ![t].res = Null,
                    ![t].caught = [step |-> step, desc |-> desc]]

\* an exception raised in the try block with the store as it is then
WorkerFails(t, store, step, desc) ==
    /\ tasks_store' = MarkFailed(store, workers[t].cap, t, desc)
    /\ status_log' = [status_log EXCEPT ![t] = Append(@, "failed")]
    /\ workers' = Caught(t, step, desc)

\* first segment of process_*_task, up to the await of the backend call
worker_start(t) ==
    /\ workers[t].pc = "scheduled"
    /\ tasks_store' = MarkProcessing(tasks_store, workers[t].cap, t)
    /\ status_log' = [status_log EXCEPT ![t] = Append(@, "processing")]
    /\ workers' = [workers EXCEPT ![t].pc = "backend"]
    /\ ev' = WorkerEvent
    /\ UNCHANGED <<loaded, uploads, outputs, next_uuid, remove_calls, unpolled>>

\* pdf only: while the call runs in the pool, the converter creates the docx
backend_writes(t) ==
    LET out == OutputPath(workers[t].cap, t) IN
    /\ workers[t].pc = "backend"
    /\ workers[t].cap = "pdf"
    /\ ServiceGuard(workers[t].cap) = {}
    /\ ~Exists(out)
    /\ outputs' = (out :> "partial") @@ outputs
    /\ ev' = WorkerEvent
    /\ UNCHANGED <<loaded, tasks_store, workers, uploads, next_uuid,
                   status_log, remove_calls, unpolled>>

\* a worker that marks the task completed and leaves the input in place
CompleteWithoutCleanup(t, result, rm) ==
    /\ tasks_store' = MarkCompleted(tasks_store, workers[t].cap, t, result)
    /\ status_log' = [status_log EXCEPT ![t] = Append(@, "completed")]
    /\ workers' = Returned(t)
    /\ UNCHANGED <<uploads, remove_calls>>

\* a worker whose cleanup deletes the input and then raises
CleanupThenFail(t, result, rm) ==
    LET c == workers[t].cap
        done == MarkCompleted(tasks_store, c, t, result)
    IN  /\ remove_calls' = [remove_calls EXCEPT ![t] = @ + 1]
        /\ uploads' = uploads \ {workers[t].path}
        /\ IF rm = "ok"
           THEN /\ tasks_store' = done
                /\ status_log' = [status_log EXCEPT ![t] = Append(@, "completed")]
                /\ workers' = Returned(t)
           ELSE /\ tasks_store' = MarkFailed(done, c, t, REMOVE_ERROR)
                /\ status_log' = [status_log EXCEPT
                                    ![t] = Append(Append(@, "completed"), "failed")]
                /\ workers' = Caught(t, "cleanup", REMOVE_ERROR)

\* the end of the try block, once the artifact is written: mark completed,
\* then delete the input if it exists; an exception of os.remove is caught
\* by the same except clause
CompleteAndCleanup(t, result, rm) ==
    LET c == workers[t].cap
        path == workers[t].path
        done == MarkCompleted(tasks_store, c, t, result)
    IN  IF path \notin uploads
        THEN /\ tasks_store' = done
             /\ status_log' = [status_log EXCEPT ![t] = Append(@, "completed")]
             /\ workers' = Returned(t)
             /\ UNCHANGED <<uploads, remove_calls>>
        ELSE /\ remove_calls' = [remove_calls EXCEPT ![t] = @ + 1]
             /\ IF rm = "ok"
                THEN /\ tasks_store' = done
                     /\ status_log' = [status_log EXCEPT ![t] = Append(@, "completed")]
                     /\ workers' = Returned(t)
                     /\ uploads' = uploads \ {path}
                ELSE /\ tasks_store' = MarkFailed(done, c, t, REMOVE_ERROR)
                     /\ status_log' = [status_log EXCEPT
                                         ![t] = Append(Append(@, "completed"), "failed")]
                     /\ workers' = Caught(t, "cleanup", REMOVE_ERROR)
                     /\ UNCHANGED uploads

\* the backend call returns or raises; the segment runs to the next await
\* (asr, ocr: the opening of the text file) or to the end (pdf)
backend_returns(t) ==
    LET c == workers[t].cap
        out == OutputPath(c, t)
    IN
    /\ workers[t].pc = "backend"
    /\ ev' = WorkerEvent
    /\ UNCHANGED <<loaded, next_uuid, unpolled>>
    /\ IF ServiceGuard(c) # {}
       THEN \* transcribe / recognize / convert: the service is not available
            /\ \E e \in ServiceGuard(c) : WorkerFails(t, tasks_store, "unavailable", e)
            /\ UNCHANGED <<uploads, outputs, remove_calls>>
       ELSE \E outcome \in {"raise", "ok"} :
            IF outcome = "raise"
            THEN /\ \E e \in BackendErrors : WorkerFails(t, tasks_store, "backend", e)
                 /\ UNCHANGED <<uploads, outputs, remove_calls>>
            ELSE \E d \in Durations, nxt \in {"ok", "raise"} :
                 LET res == BackendResult(c, workers[t].file, out, d) IN
                 IF c = "pdf"
                 THEN /\ outputs' = (out :> "complete") @@ outputs
                      /\ CompleteAndCleanup(t, TaskResult(c, res, out), nxt)
                 ELSE IF nxt = "raise"
                 THEN \* os.makedirs or aiofiles.open raises
                      /\ d = 1
                      /\ WorkerFails(t, StoreSet(tasks_store, c, t, "progress",
                                                 P_BACKEND_DONE),
                                     "artifact", IO_ERROR)
                      /\ UNCHANGED <<uploads, outputs, remove_calls>>
                 ELSE /\ tasks_store' = StoreSet(tasks_store, c, t, "progress",
                                                 P_BACKEND_DONE)
                      /\ outputs' = (out :> "partial") @@ outputs
                      /\ workers' = [workers EXCEPT ![t].pc = "writing", ![t].res = res]
                      /\ UNCHANGED <<uploads, status_log, remove_calls>>

\* asr / ocr: the write of the text file returns or raises
write_returns(t) ==
    LET c == workers[t].cap
        out == OutputPath(c, t)
    IN
    /\ workers[t].pc = "writing"
    /\ ev' = WorkerEvent
    /\ UNCHANGED <<loaded, next_uuid, unpolled>>
    /\ \E io \in {"raise", "ok"} :
         IF io = "raise"
         THEN /\ WorkerFails(t, tasks_store, "artifact", IO_ERROR)
              /\ UNCHANGED <<uploads, outputs, remove_calls>>
         ELSE /\ outputs' = (out :> "complete") @@ outputs
              /\ \E rm \in {"ok", "raise"} :
                   CompleteAndCleanup(t, TaskResult(c, workers[t].res, out), rm)

\* ---------------------------------------------------- read-only queries
\* The three query handlers read the state and write nothing; what each
\* returns in a state is given by its response operator.
\* GET /task/{task_id}
StatusResponse(c, id) ==
    IF id \notin DOMAIN tasks_store[c]
    THEN [code |-> 404, body |-> Null]
    ELSE [code |-> 200, body |-> TaskStatus(tasks_store[c][id])]

get_task_status(c, id) ==
    /\ unpolled' = IF StatusResponse(c, id).code = 200 /\ id = unpolled THEN 0 ELSE unpolled
    /\ UNCHANGED ev
    /\ UNCHANGED <<loaded, tasks_store, workers, uploads, outputs, next_uuid,
                   status_log, remove_calls>>

\* GET /download/{task_id} of asr and ocr; GET /download/{filename} of pdf,
\* asked for the file <id>.docx.  body is the state of the file served.
DownloadResponse(c, id) ==
    IF c = "pdf"
    THEN LET file_path == [dir |-> "outputs", name |-> id, ext |-> ".docx"] IN
         IF ~Exists(file_path)
         THEN [code |-> 404, body |-> Null]
         ELSE [code |-> 200, body |-> [served |-> outputs[file_path]]]
    ELSE IF id \notin DOMAIN tasks_store[c]
         THEN [code |-> 404, body |-> Null]
         ELSE LET task == tasks_store[c][id] IN
              IF task.status # "completed"
              THEN [code |-> 400, body |-> Null]
              ELSE IF ~Exists(task.result.output_file)
                   THEN [code |-> 404, body |-> Null]
                   ELSE [code |-> 200,
                         body |-> [served |-> outputs[task.result.output_file]]]

download_result(c, id) ==
    /\ DownloadResponse(c, id).code \in {200, 400, 404}
    /\ UNCHANGED <<ev, loaded, tasks_store, workers, uploads, outputs, next_uuid,
                   status_log, remove_calls, unpolled>>

\* GET /<capability>/status
ProbeResponse(c) == [code |-> 200, body |-> [available |-> IsAvailable(c)]]

get_service_status(c) ==
    /\ ProbeResponse(c).code = 200
    /\ UNCHANGED <<ev, loaded, tasks_store, workers, uploads, outputs, next_uuid,
                   status_log, remove_calls, unpolled>>

\* ------------------------------------------------- synchronous endpoints
\* ALLOWED_EXTENSIONS of the ocr router
ALLOWED_EXTENSIONS == {".jpg", ".jpeg", ".png", ".bmp", ".tiff", ".tif", ".webp", ".gif"}

\* str.lower() on the extensions of the model
Lower(ext) ==
    CASE ext = ".PNG" -> ".png"
      [] ext = ".PDF" -> ".pdf"
      [] OTHER -> ext

\* POST /transcribe, /recognize, /convert: the status code of the
\* HTTPException raised before the try block, 0 when the request is admitted
SyncRejection(c, f) ==
    IF ~IsAvailable(c) THEN 503
    ELSE CASE c = "asr" -> 0
           [] c = "ocr" -> IF Lower(f.ext) \notin ALLOWED_EXTENSIONS THEN 400 ELSE 0
           [] c = "pdf" -> IF Lower(f.ext) # ".pdf" THEN 400 ELSE 0

\* the data of a successful synchronous response
SyncData(c, res, output_name) ==
    CASE c = "asr" -> [text |-> res.text, language |-> res.language,
                       duration |-> res.duration]
      [] c = "ocr" -> [i \in DOMAIN res.results |->
                         [text |-> res.results[i].text, boxes |-> res.results[i].box,
                          confidence |-> res.results[i].confidence]]
      [] c = "pdf" -> [output_path |-> output_name, page_count |-> res.page_count,
                       word_count |-> res.word_count]

\* what a synchronous request leaves behind and answers
SyncEffect(c, f, ups, outs, nxt, code, body) ==
    /\ uploads' = ups
    /\ outputs' = outs
    /\ next_uuid' = nxt
    /\ ev' = RequestEvent("sync", c, 0, code, body, IF code = 200 THEN f ELSE Null)
    /\ UNCHANGED <<loaded, tasks_store, workers, status_log, remove_calls, unpolled>>

\* a handler that answers success wherever its try block ends
SyncAlwaysOk(o) == 200

\* the status code of the response: the except clause turns every exception
\* of the try block into HTTPException(500)
SyncCode(o) == IF o = "ok" THEN 200 ELSE 500

\* a handler that answers without removing the upload it saved
SyncKeepsUpload(ups, path) == ups

\* os.remove(file_path) at the end of the try block
SyncCleanup(ups, path) == ups \ {path}

SyncOutcomes ==
    {"save_open_error", "save_write_error", "backend_raise", "backend_raise_partial",
     "out_open_error", "out_write_error", "remove_error", "ok"}

\* the whole handler of a synchronous request: its awaits touch only the
\* two files it names itself
sync_request(c, f) ==
    IF SyncRejection(c, f) # 0
    THEN UNCHANGED vars
    ELSE /\ next_uuid + 1 <= MaxUuid
         /\ \E o \in SyncOutcomes, d \in Durations :
              LET path == UploadPath(next_uuid, f)
                  out  == OutputPath(c, next_uuid + 1)
                  name == [name |-> next_uuid + 1, ext |-> ".docx"]
                  res  == BackendResult(c, f, out, d)
                  kept == uploads \cup {path}
              IN  /\ (c = "pdf") => o \notin {"out_open_error", "out_write_error"}
                  /\ (c # "pdf") => o # "backend_raise_partial"
                  /\ o # "ok" => d = 1
                  /\ CASE o = "save_open_error" ->
                            SyncEffect(c, f, uploads, outputs, next_uuid, SyncCode(o), Null)
                       [] o = "save_write_error" ->
                            SyncEffect(c, f, kept, outputs, next_uuid + 1, SyncCode(o), Null)
                       [] o \in {"backend_raise", "out_open_error"} ->
                            SyncEffect(c, f, kept, outputs, next_uuid + 1, SyncCode(o), Null)
                       [] o \in {"backend_raise_partial", "out_write_error"} ->
                            SyncEffect(c, f, kept, (out :> "partial") @@ outputs,
                                       next_uuid + 2, SyncCode(o), Null)
                       [] o = "remove_error" ->
                            SyncEffect(c, f, kept, (out :> "complete") @@ outputs,
                                       next_uuid + 2, SyncCode(o), Null)
                       [] o = "ok" ->
                            SyncEffect(c, f, SyncCleanup(kept, path),
                                       (out :> "complete") @@ outputs,
                                       next_uuid + 2, SyncCode(o), SyncData(c, res, name))

\* ---------------------------------------------------- the environment
\* PdfService holds no load state: is_available() runs "import pdf2docx"
\* on every call, and Python does not cache a failed import.  When the
\* package appears on the path of the running process, the next call
\* succeeds.  (asr and ocr keep _model / _ocr from construction; their
\* services are constructed once, at import.)
pdf2docx_installed ==
    /\ ~loaded["pdf"]
    /\ loaded' = [loaded EXCEPT !["pdf"] = TRUE]
    /\ UNCHANGED <<tasks_store, workers, uploads, outputs, next_uuid,
                   status_log, remove_calls, unpolled, ev>>

\* ----------------------------------------------------------- the pool
\* loop.run_in_executor(None, ...): the executor argument of every backend
\* call; None selects the loop's default executor
EXECUTOR == Null

\* the pool sizes the application configures
ConfiguredPoolBounds ==
    IF EXECUTOR = Null THEN {} ELSE {EXECUTOR.max_workers}

\* the backend calls of capability c handed to the pool and not yet
\* returned.  The default executor starts a thread per call up to
\* min(32, cpu_count + 4) >= 5 threads, more than the tasks of this model,
\* and the services take no lock: each of these calls is running.
InFlight(c) ==
    {t \in DOMAIN workers : workers[t].cap = c /\ workers[t].pc = "backend"}

\* the ids a client asks about: the tasks submitted and one id never issued
RequestIds == DOMAIN workers \cup {next_uuid}

Next ==
    \/ \E c \in Caps : get_service_status(c)
    \/ \E c \in Caps : \E f \in UploadFiles(c) : submit_async(c, f)
    \/ \E t \in DOMAIN workers : worker_start(t)
    \/ \E t \in DOMAIN workers : backend_writes(t)
    \/ \E t \in DOMAIN workers : backend_returns(t)
    \/ \E t \in DOMAIN workers : write_returns(t)
    \/ \E c \in Caps : \E id \in RequestIds : get_task_status(c, id)
    \/ \E c \in Caps : \E id \in RequestIds : download_result(c, id)
    \/ \E c \in Caps : \E f \in UploadFiles(c) : sync_request(c, f)
    \/ pdf2docx_installed

Spec == Init /\ [][Next]_vars

\* one segment of some background task
worker_step ==
    \E t \in DOMAIN workers :
        worker_start(t) \/ backend_returns(t) \/ write_returns(t)

\* The event loop resumes a coroutine that is ready, and every call handed
\* to the pool returns or raises: while some background task can take a
\* segment, one of them does.  Nothing is assumed about the clients.
LiveSpec == Spec /\ WF_vars(worker_step)

\* ================================================================ claims
TaskIds == DOMAIN workers
Record(t) == tasks_store[workers[t].cap][t]

IsPrefix(p, q) == Len(p) <= Len(q) /\ SubSeq(q, 1, Len(p)) = p

\* C1: the status values written to a task's record form a prefix of
\* pending -> processing -> (completed | failed), whatever step of the
\* worker raises; nothing is written after a terminal status.
C1_StatusSequence ==
    \A t \in TaskIds :
        \/ IsPrefix(status_log[t], <<"pending", "processing", "completed">>)
        \/ IsPrefix(status_log[t], <<"pending", "processing", "failed">>)

\* C2: a record's result is non-null exactly when its status is completed;
\* a failed record has a null result.
C2_ResultIffCompleted ==
    \A t \in TaskIds :
        (TaskStatus(Record(t)).result # Null) <=> (Record(t).status = "completed")

\* the body of a status response that shows a task as just created
ShowsPending(resp) ==
    /\ resp.code = 200
    /\ resp.body.status = "pending"
    /\ resp.body.progress = P_PENDING
    /\ resp.body.result = Null

\* C3 as stated: the first status query after the submission response
\* returns pending, progress 0.0, result null, at any interleaving with the
\* background worker.
C3_FirstQueryPending ==
    unpolled # 0 => ShowsPending(StatusResponse(workers[unpolled].cap, unpolled))

\* C3 amended: the first status query returns pending, progress 0.0, result
\* null when it is answered before the worker's first segment has run.
C3_FirstQueryBeforeWorker ==
    \A t \in TaskIds :
        (unpolled = t /\ workers[t].pc = "scheduled")
            => ShowsPending(StatusResponse(workers[t].cap, t))

C3_Witness ==
    \E t \in TaskIds :
        /\ unpolled = t
        /\ workers[t].pc = "scheduled"
        /\ ShowsPending(StatusResponse(workers[t].cap, t))
        /\ ev.op = "submit" /\ ev.code = 200 /\ ev.id = t

\* C4: a download for a task succeeds iff the task is completed and its
\* artifact exists; pending, processing and failed tasks get 400, a
\* completed task without artifact 404.
C4_DownloadIffCompleted ==
    \A t \in TaskIds :
        LET c == workers[t].cap
            code == DownloadResponse(c, t).code
            st == Record(t).status
        IN  /\ (code = 200) <=> (st = "completed" /\ Exists(OutputPath(c, t)))
            /\ (st # "completed") => code = 400
            /\ (st = "completed" /\ ~Exists(OutputPath(c, t))) => code = 404

\* C5: an exception of the backend call is caught in the worker: the
\* coroutine returns, the record is failed with the exception's description
\* as message, and the response given to the submitter stays as it was.
C5_BackendExceptionCaught ==
    \A t \in TaskIds :
        (workers[t].caught # Null /\ workers[t].caught.step = "backend")
            => /\ workers[t].pc = "done"
               /\ Record(t).status = "failed"
               /\ Record(t).message = workers[t].caught.desc
               /\ workers[t].response = TaskStatus(NewRecord(t))

C5_Witness ==
    \E t \in TaskIds :
        /\ workers[t].caught # Null
        /\ workers[t].caught.step = "backend"
        /\ workers[t].caught.desc = "backend error"
        /\ Record(t).message = "backend error"

\* C6: a completed record still carries the creation message, and a failed
\* record has a non-empty message.
C6_Messages ==
    \A t \in TaskIds :
        /\ Record(t).status = "completed" => Record(t).message = CREATED_MESSAGE
        /\ Record(t).status = "failed" => Record(t).message # ""

\* C7: whenever a task's status is completed, its input file is gone from
\* the upload directory and the worker called os.remove on it exactly once.
C7_InputRemoved ==
    \A t \in TaskIds :
        Record(t).status = "completed"
            => /\ workers[t].path \notin uploads
               /\ remove_calls[t] = 1

C7_Witness ==
    \E t \in TaskIds :
        /\ Record(t).status = "completed"
        /\ workers[t].path \notin uploads
        /\ remove_calls[t] = 1

\* the extensions each capability documents as supported
Supported(c, ext) ==
    CASE c = "asr" -> ext \in {".mp3", ".wav", ".m4a", ".flac", ".ogg"}
      [] c = "ocr" -> ext \in ALLOWED_EXTENSIONS
      [] c = "pdf" -> ext = ".pdf"

\* C8: a file of an unsupported extension is rejected by the synchronous
\* and by the asynchronous endpoint before anything is saved: no task is
\* ever created for such a file and no synchronous request succeeds on one.
C8_UnsupportedRejected ==
    /\ \A t \in TaskIds : Supported(workers[t].cap, workers[t].file.ext)
    /\ (ev.op = "sync" /\ ev.code = 200) => Supported(ev.cap, ev.file.ext)

\* C9: for an unavailable capability both endpoints answer 503, the probe
\* reports available = false, and a request to either endpoint saves no
\* upload, creates no record and schedules no worker.
C9_UnavailableRejected ==
    [][ \A c \in Caps : ~IsAvailable(c) =>
          /\ ProbeResponse(c).body.available = FALSE
          /\ tasks_store[c] = <<>>
          /\ \A t \in TaskIds : workers[t].cap # c
          /\ \A f \in UploadFiles(c) :
                /\ SyncRejection(c, f) = 503
                /\ SubmitRejection(c, f) = 503
                /\ (sync_request(c, f) \/ submit_async(c, f))
                      => UNCHANGED <<uploads, outputs, tasks_store, workers, next_uuid>>
      ]_vars

C9_Witness ==
    \E c \in Caps :
        /\ ~IsAvailable(c)
        /\ \A f \in UploadFiles(c) : SyncRejection(c, f) = 503 /\ SubmitRejection(c, f) = 503
        /\ tasks_store[c] = <<>>
        /\ \E t \in TaskIds : Record(t).status = "completed"

\* the named fields of a response payload: a list has none
PayloadFields(c, data) == IF c = "ocr" THEN {} ELSE DOMAIN data

\* equal field sets, and equal values in every field but duration
SameModuloTiming(c, data, result) ==
    /\ PayloadFields(c, data) = DOMAIN result
    /\ \A k \in (PayloadFields(c, data) \cap DOMAIN result) \ {"duration"} :
          data[k] = result[k]

\* C10: a synchronous response and the result of a completed task of the
\* same capability on the same file agree in their fields and, but for
\* duration, in their values.
C10_SyncAsyncEqual ==
    (ev.op = "sync" /\ ev.code = 200) =>
        \A t \in TaskIds :
            (workers[t].cap = ev.cap /\ workers[t].file = ev.file
             /\ Record(t).status = "completed")
                => SameModuloTiming(ev.cap, ev.body, Record(t).result)

\* ------------------------------------------------- the facade on its own
\* a direct call of transcribe / recognize / convert(output_path); convert
\* leaves the docx it was writing
execute(c, f) ==
    \E o \in BackendOutcomes, d \in Durations :
        LET out == OutputPath(c, next_uuid)
            r   == Execute(c, f, out, o, d)
        IN  /\ (o.kind = "raise") => d = 1
            /\ ev' = RequestEvent("execute", c, 0, 0, r, f)
            /\ outputs' = IF c = "pdf" /\ r.backend_called
                           THEN (out :> IF "returned" \in DOMAIN r THEN "complete"
                                                                  ELSE "partial") @@ outputs
                           ELSE outputs
            /\ UNCHANGED <<loaded, tasks_store, workers, uploads, next_uuid,
                           status_log, remove_calls, unpolled>>

\* The contract of execute and of the worker around it is stated for either
\* state of the service: one task, as a submission leaves it, whose worker
\* is entered whether or not the backend is held.
FacadeInit ==
    \E c \in Caps : \E f \in UploadFiles(c) :
        /\ loaded \in [Caps -> BOOLEAN]
        /\ tasks_store = [k \in Caps |-> IF k = c THEN (2 :> NewRecord(2)) ELSE <<>>]
        /\ workers = (2 :> [cap |-> c, pc |-> "scheduled", path |-> UploadPath(1, f),
                             file |-> f, res |-> Null, caught |-> Null,
                             response |-> TaskStatus(NewRecord(2))])
        /\ uploads = {UploadPath(1, f)}
        /\ outputs = <<>>
        /\ next_uuid = 3
        /\ status_log = (2 :> <<"pending">>)
        /\ remove_calls = (2 :> 0)
        /\ unpolled = 2
        /\ ev = NoEvent

FacadeNext ==
    \/ \E t \in DOMAIN workers : worker_start(t)
    \/ \E t \in DOMAIN workers : backend_writes(t)
    \/ \E t \in DOMAIN workers : backend_returns(t)
    \/ \E t \in DOMAIN workers : write_returns(t)
    \/ \E c \in Caps : \E f \in UploadFiles(c) : execute(c, f)

FacadeSpec == FacadeInit /\ [][FacadeNext]_vars

\* ------------------------------------------------ conversion page range
\* Optional[int]: {} is None, {v} the value v
\* Optional[int] form values: absent, or any integer, negative ones and
\* ones past the last page included
OptPages == {{}} \cup {{i} : i \in -1 .. MaxPages}

Value(opt) == CHOOSE v \in opt : TRUE

\* "start_page or 0" in the call of convert_async
OrZero(opt) == IF opt = {} \/ Value(opt) = 0 THEN 0 ELSE Value(opt)

\* a convert that takes every falsy end_page, 0 included, as unspecified
EndPageFalsy(opt, page_count) ==
    IF opt = {} \/ Value(opt) = 0 THEN page_count - 1 ELSE Value(opt)

\* if end_page is None: end_page = page_count - 1
EndPage(opt, page_count) ==
    IF opt = {} THEN page_count - 1 ELSE Value(opt)

\* a bound of a Python slice over a sequence of n items: a negative bound
\* counts from the end, and every bound is clamped to 0 .. n
SliceIndex(x, n) ==
    IF x < 0 THEN (IF n + x < 0 THEN 0 ELSE n + x)
             ELSE (IF x > n THEN n ELSE x)

\* cv.convert(output_path, start = start, end = end): the converter takes
\* the pages range(page_count)[start:end], with a falsy end meaning the
\* last page
PagesWritten(page_count, start, end) ==
    LET stop == IF end = 0 THEN page_count ELSE end
    IN  {i \in 0 .. page_count - 1 :
            SliceIndex(start, page_count) <= i /\ i < SliceIndex(stop, page_count)}

\* PdfService.convert on a document of page_count pages, as the routers
\* call it: what it reports and the pages that reach the docx
ConvertRange(page_count, start_page, end_page) ==
    LET start == OrZero(start_page)
        last  == EndPage(end_page, page_count)
    IN  [page_count |-> page_count,
         converted_pages |-> last - start + 1,
         pages |-> PagesWritten(page_count, start, last + 1)]

\* the outcomes of PdfService.convert: its result dict, or, when the range
\* selects no page, possibly the converter's exception instead (whether
\* the converter refuses to write a document without pages depends on its
\* version)
ConvertResults(page_count, start_page, end_page) ==
    LET r == ConvertRange(page_count, start_page, end_page)
    IN  {r} \cup (IF r.pages = {} THEN {[raised |-> "ConversionException"]} ELSE {})

\* the state around a function that is applied on its own
Elsewhere ==
    /\ loaded = [c \in Caps |-> TRUE]
    /\ tasks_store = [c \in Caps |-> <<>>]
    /\ workers = <<>>
    /\ uploads = {}
    /\ outputs = <<>>
    /\ next_uuid = 1
    /\ status_log = <<>>
    /\ remove_calls = <<>>
    /\ unpolled = 0

ConvertInit ==
    /\ Elsewhere
    /\ \E n \in 1 .. MaxPages : \E sp \in OptPages : \E ep \in OptPages :
          ev = RequestEvent("convert_call", "pdf", 0, 0,
                            [page_count |-> n, start_page |-> sp, end_page |-> ep,
                             result |-> Null], Null)

convert ==
    /\ ev.op = "convert_call"
    /\ \E r \in ConvertResults(ev.body.page_count, ev.body.start_page,
                                ev.body.end_page) :
          ev' = [ev EXCEPT !.op = "convert_result", !.body.result = r]
    /\ UNCHANGED <<loaded, tasks_store, workers, uploads, outputs, next_uuid,
                   status_log, remove_calls, unpolled>>

ConvertSpec == ConvertInit /\ [][convert]_vars

\* ------------------------------------------------ recognition confidence
\* confidences as the backend gives them, in units of 0.00001
RawConfidences == {0, 33336, 90008, 99992}

\* the entries of result[0]: None; a line too short to index (IndexError);
\* a line that cannot be indexed (TypeError); a line whose confidence is a
\* string that is no number (ValueError); a line [box, (text, confidence)]
OcrLines ==
    {[kind |-> k, conf |-> 0] : k \in {"none", "short", "scalar", "text"}}
      \cup {[kind |-> "ok", conf |-> c] : c \in RawConfidences}

\* round(num / den, 4) for num in units of 0.00001, in units of 0.0001:
\* the nearest value, a tie going to the even one
Round4(num, den) ==
    LET q == (2 * num + 10 * den) \div (20 * den)
        tie == (2 * num + 10 * den) % (20 * den) = 0
    IN  IF tie /\ q % 2 = 1 THEN q - 1 ELSE q

\* a recognize that reports the sum of the confidences
NoMean(total, text_count) == Round4(total, 1)

\* avg_confidence = total_confidence / text_count if text_count > 0 else 0;
\* "confidence": round(avg_confidence, 4)
MeanConfidence(total, text_count) ==
    IF text_count > 0 THEN Round4(total, text_count) ELSE 0

RECURSIVE RecognizeFrom(_, _, _, _)
\* the loop over result[0] from line i on, with the lines appended and
\* the confidences added so far
RecognizeFrom(lines, i, text_results, total) ==
    IF i > Len(lines)
    THEN [results |-> text_results,
          confidence |-> MeanConfidence(total, Len(text_results))]
    ELSE LET line == lines[i] IN
         CASE line.kind = "none" -> RecognizeFrom(lines, i + 1, text_results, total)
           [] line.kind \in {"short", "scalar"} ->
                \* except (IndexError, TypeError): continue
                RecognizeFrom(lines, i + 1, text_results, total)
           [] line.kind = "text" ->
                \* float(confidence) raises ValueError, which nothing catches
                [raised |-> "ValueError"]
           [] line.kind = "ok" ->
                RecognizeFrom(lines, i + 1,
                              Append(text_results,
                                     [line |-> i, confidence |-> Round4(line.conf, 1)]),
                              total + line.conf)

\* OcrService.recognize on what the backend returned for the image
RecognizeLines(lines) == RecognizeFrom(lines, 1, <<>>, 0)

LineSeqs == UNION {[1 .. n -> OcrLines] : n \in 0 .. MaxLines}

RecognizeInit ==
    /\ Elsewhere
    /\ \E lines \in LineSeqs :
          ev = RequestEvent("recognize_call", "ocr", 0, 0,
                            [lines |-> lines, result |-> Null], Null)

recognize ==
    /\ ev.op = "recognize_call"
    /\ ev' = [ev EXCEPT !.op = "recognize_result",
                         !.body.result = RecognizeLines(ev.body.lines)]
    /\ UNCHANGED <<loaded, tasks_store, workers, uploads, outputs, next_uuid,
                   status_log, remove_calls, unpolled>>

RecognizeSpec == RecognizeInit /\ [][recognize]_vars

\* ------------------------------------------------- batch recognition
\* the files a batch request draws from: two images, one of them with an
\* upper-case extension, and a file that is no image
BatchFiles ==
    { [ext |-> ".png", content |-> 1],
      [ext |-> ".PNG", content |-> 3],
      [ext |-> UNSUPPORTED_EXT, content |-> 2] }

FileSeqs == UNION { [1 .. n -> BatchFiles] : n \in 0 .. MaxFiles }

UNSUPPORTED_MESSAGE == "unsupported image format"
RECOGNIZED_MESSAGE == "recognized"
RECOGNIZE_FAILED == "recognition failed"

\* OcrResponse(success, message, data): about is the filename or the
\* exception text the message quotes, data is absent ({}) or present ({d})
OcrResponse(success, message, about, data) ==
    [success |-> success, message |-> message, about |-> about, data |-> data]

\* a loop that gives up at the first file that fails
AppendOrAbort(body, resp) ==
    [body EXCEPT !.i = IF resp.success THEN @ + 1 ELSE Len(body.files) + 1,
                 !.results = Append(@, resp)]

\* results.append(...) and on to the next file of the for loop
AppendAndContinue(body, resp) ==
    [body EXCEPT !.i = @ + 1, !.results = Append(@, resp)]

\* what one pass of the loop leaves behind
BatchEffect(ups, outs, nxt, body) ==
    /\ uploads' = ups
    /\ outputs' = outs
    /\ next_uuid' = nxt
    /\ ev' = [ev EXCEPT !.body = body]
    /\ UNCHANGED <<loaded, tasks_store, workers, status_log, remove_calls, unpolled>>

\* a request with its list of files, received but not yet handled
BatchInit ==
    /\ loaded \in { [c \in Caps |-> TRUE], [c \in Caps |-> c # "ocr"] }
    /\ tasks_store = [c \in Caps |-> <<>>]
    /\ workers = <<>>
    /\ uploads = {}
    /\ outputs = <<>>
    /\ next_uuid = 1
    /\ status_log = <<>>
    /\ remove_calls = <<>>
    /\ unpolled = 0
    /\ \E files \in FileSeqs :
          ev = RequestEvent("batch_call", "ocr", 0, 0,
                            [files |-> files, i |-> 1, results |-> <<>>,
                             calls |-> <<>>], Null)

\* the availability check that opens the handler
batch_admit ==
    /\ ev.op = "batch_call"
    /\ ev' = IF ~IsAvailable("ocr")
             THEN [ev EXCEPT !.op = "batch_response", !.code = 503]
             ELSE [ev EXCEPT !.op = "batch_loop"]
    /\ UNCHANGED <<loaded, tasks_store, workers, uploads, outputs, next_uuid,
                   status_log, remove_calls, unpolled>>

\* one pass of "for file in files": body.calls records the paths handed to
\* ocr_service.recognize_async
batch_file ==
    /\ ev.op = "batch_loop"
    /\ ev.body.i <= Len(ev.body.files)
    /\ LET f    == ev.body.files[ev.body.i]
           path == UploadPath(next_uuid, f)
           out  == OutputPath("ocr", next_uuid + 1)
           res  == Recognize(f, 1)
           kept == uploads \cup {path}
           called == [ev.body EXCEPT !.calls = Append(@, path)]
           failed == OcrResponse(FALSE, RECOGNIZE_FAILED, IO_ERROR, {})
       IN  IF Lower(f.ext) \notin ALLOWED_EXTENSIONS
           THEN BatchEffect(uploads, outputs, next_uuid,
                            AppendAndContinue(ev.body,
                                OcrResponse(FALSE, UNSUPPORTED_MESSAGE, f, {})))
           ELSE \E o \in SyncOutcomes \ {"backend_raise_partial"} :
                  CASE o = "save_open_error" ->
                         BatchEffect(uploads, outputs, next_uuid,
                                     AppendAndContinue(ev.body, failed))
                    [] o = "save_write_error" ->
                         BatchEffect(kept, outputs, next_uuid + 1,
                                     AppendAndContinue(ev.body, failed))
                    [] o = "backend_raise" ->
                         \E e \in BackendErrors :
                           BatchEffect(kept, outputs, next_uuid + 1,
                                       AppendAndContinue(called,
                                           OcrResponse(FALSE, RECOGNIZE_FAILED, e, {})))
                    [] o = "out_open_error" ->
                         BatchEffect(kept, outputs, next_uuid + 1,
                                     AppendAndContinue(called, failed))
                    [] o = "out_write_error" ->
                         BatchEffect(kept, (out :> "partial") @@ outputs, next_uuid + 2,
                                     AppendAndContinue(called, failed))
                    [] o = "remove_error" ->
                         BatchEffect(kept, (out :> "complete") @@ outputs, next_uuid + 2,
                                     AppendAndContinue(called,
                                         OcrResponse(FALSE, RECOGNIZE_FAILED,
                                                     REMOVE_ERROR, {})))
                    [] o = "ok" ->
                         BatchEffect(SyncCleanup(kept, path),
                                     (out :> "complete") @@ outputs, next_uuid + 2,
                                     AppendAndContinue(called,
                                         OcrResponse(TRUE, RECOGNIZED_MESSAGE, Null,
                                                     {SyncData("ocr", res, Null)})))

\* return results
batch_return ==
    /\ ev.op = "batch_loop"
    /\ ev.body.i > Len(ev.body.files)
    /\ ev' = [ev EXCEPT !.op = "batch_response", !.code = 200]
    /\ UNCHANGED <<loaded, tasks_store, workers, uploads, outputs, next_uuid,
                   status_log, remove_calls, unpolled>>

BatchNext == batch_admit \/ batch_file \/ batch_return

BatchSpec == BatchInit /\ [][BatchNext]_vars

\* C11: the response of an accepted submission shows pending, progress 0.0
\* and no result, and when it is returned the worker of the task has run no
\* segment: only "pending" was ever written and no backend call was started.
C11_SubmitShowsPending ==
    /\ (ev.op = "submit" /\ ev.code = 200)
          => /\ ShowsPending(ev)
             /\ workers[ev.id].pc = "scheduled"
             /\ status_log[ev.id] = <<"pending">>
             /\ workers[ev.id].response = ev.body
    /\ \A t \in TaskIds :
          ShowsPending([code |-> 200, body |-> workers[t].response])

C11_Witness ==
    /\ ev.op = "submit" /\ ev.code = 200
    /\ ev.body.status = "pending"
    /\ workers[ev.id].pc = "scheduled"
    /\ \E t \in TaskIds : t # ev.id /\ workers[t].pc = "backend"

Terminal == {"completed", "failed"}

\* C12: a task whose worker has begun eventually has a terminal status,
\* whatever requests the clients make or stop making.
C12_WorkerTerminates ==
    \A t \in 1 .. MaxUuid :
        (t \in TaskIds /\ workers[t].pc # "scheduled")
            ~> (t \in TaskIds /\ Record(t).status \in Terminal)

C12_Witness ==
    \E t \in TaskIds :
        /\ workers[t].pc = "done"
        /\ Record(t).status \in Terminal
        /\ \E u \in TaskIds : u # t /\ workers[u].pc = "writing"

\* C13: at most one call into a capability's backend is in flight at any
\* time.
C13_OneCallPerCapability ==
    \A c \in Caps : Cardinality(InFlight(c)) <= 1

\* C14: the backend calls running at any time, over all capabilities, stay
\* within a pool bound that the application configures.
C14_PoolBounded ==
    LET running == UNION {InFlight(c) : c \in Caps} IN
    running # {} => \E bound \in ConfiguredPoolBounds : Cardinality(running) <= bound

\* C15: a capability that is unavailable stays unavailable: after a failed
\* load, is_available() answers false on every later call and nothing
\* acquires the backend again.
C15_LoadFailurePermanent ==
    [][ \A c \in Caps : ~IsAvailable(c) => ~IsAvailable(c)' ]_vars

\* C16: execute on an unavailable service raises the service-unavailable
\* error without reaching the backend; inside a worker the task then ends
\* failed with that error's description, and no artifact is begun.
C16_UnavailableExecuteFails ==
    /\ (ev.op = "execute" /\ ~IsAvailable(ev.cap))
          => ev.body = [raised |-> UNAVAILABLE_ERROR, backend_called |-> FALSE]
    /\ \A t \in TaskIds :
          ~IsAvailable(workers[t].cap)
             => /\ workers[t].pc \in {"scheduled", "backend", "done"}
                /\ ~Exists(OutputPath(workers[t].cap, t))
                /\ workers[t].pc = "done"
                      => /\ Record(t).status = "failed"
                         /\ Record(t).message = UNAVAILABLE_ERROR
                         /\ workers[t].caught = [step |-> "unavailable",
                                                  desc |-> UNAVAILABLE_ERROR]

C16_Witness ==
    /\ ev.op = "execute"
    /\ ~IsAvailable(ev.cap)
    /\ ev.body.backend_called = FALSE
    /\ \E t \in TaskIds :
          /\ workers[t].cap = ev.cap
          /\ workers[t].pc = "done"
          /\ Record(t).message = UNAVAILABLE_ERROR

\* C17: on an available capability an asynchronous submission is always
\* answered with success and a task record, whatever happens while the
\* upload is saved.
C17_SubmitAlwaysSucceeds ==
    (ev.op = "submit" /\ IsAvailable(ev.cap)) => (ev.code = 200 /\ ev.body # Null)

\* C18: whenever a task's status is failed, the input file it was created
\* with is still in the upload directory.
C18_FailedKeepsInput ==
    \A t \in TaskIds :
        Record(t).status = "failed" => workers[t].path \in uploads

C18_Witness ==
    \E t \in TaskIds :
        /\ Record(t).status = "failed"
        /\ workers[t].caught = [step |-> "cleanup", desc |-> REMOVE_ERROR]
        /\ remove_calls[t] = 1
        /\ workers[t].path \in uploads

\* C19: a record, once created, stays: every task ever submitted has its
\* record in the store of its capability and a status query for it is
\* answered with the record; a query for any other id is answered 404, and
\* no record exists that a submission did not create.
C19_RecordsKept ==
    /\ \A t \in TaskIds :
          /\ t \in DOMAIN tasks_store[workers[t].cap]
          /\ StatusResponse(workers[t].cap, t).code = 200
          /\ StatusResponse(workers[t].cap, t).body.task_id = t
    /\ \A c \in Caps :
          /\ \A id \in DOMAIN tasks_store[c] : id \in TaskIds /\ workers[id].cap = c
          /\ \A id \in (1 .. next_uuid) \ DOMAIN tasks_store[c] :
                StatusResponse(c, id).code = 404

C19_Witness ==
    /\ unpolled = 0
    /\ \E t \in TaskIds :
          /\ workers[t].pc = "done"
          /\ StatusResponse(workers[t].cap, t).code = 200
          /\ \E c \in Caps : c # workers[t].cap /\ StatusResponse(c, t).code = 404
          /\ StatusResponse(workers[t].cap, next_uuid).code = 404

\* C20: no step removes or overwrites a finished artifact, and a download
\* of a completed task that succeeds keeps succeeding, with the same file,
\* after every step.
C20_ArtifactsKept ==
    [][ /\ \A p \in DOMAIN outputs :
              outputs[p] = "complete"
                 => (p \in DOMAIN outputs' /\ outputs'[p] = "complete")
        /\ \A t \in TaskIds :
              (Record(t).status = "completed"
               /\ DownloadResponse(workers[t].cap, t).code = 200)
                 => DownloadResponse(workers[t].cap, t)'
                      = DownloadResponse(workers[t].cap, t)
      ]_vars

C20_Witness ==
    \E t \in TaskIds :
        /\ Record(t).status = "completed"
        /\ DownloadResponse(workers[t].cap, t).code = 200
        /\ ev.op = "sync" /\ ev.code = 200 /\ ev.cap = workers[t].cap
        /\ Cardinality(DOMAIN outputs) = 2

\* the page range a request names: start_page absent is page 0, end_page
\* absent is the last page
AskedFirst == IF ev.body.start_page = {} THEN 0 ELSE Value(ev.body.start_page)
AskedLast ==
    IF ev.body.end_page = {} THEN ev.body.page_count - 1 ELSE Value(ev.body.end_page)

\* C21: converting pages s..e of a document (0 <= s <= e < page_count)
\* reports the document's page_count and e - s + 1 converted pages, and
\* exactly the pages s..e are converted; an absent end_page means the last
\* page, and end_page = 0 means page 0.
C21_PageRange ==
    (ev.op = "convert_result" /\ 0 <= AskedFirst /\ AskedFirst <= AskedLast
        /\ AskedLast <= ev.body.page_count - 1)
      => /\ ev.body.result.page_count = ev.body.page_count
         /\ ev.body.result.pages = AskedFirst .. AskedLast
         /\ ev.body.result.converted_pages = AskedLast - AskedFirst + 1
         /\ ev.body.result.converted_pages = Cardinality(ev.body.result.pages)

C21_Witness ==
    /\ ev.op = "convert_result"
    /\ ev.body.page_count = 3
    /\ ev.body.start_page = {}
    /\ ev.body.end_page = {0}
    /\ ev.body.result.pages = {0}
    /\ ev.body.result.converted_pages = 1

\* C22: a synchronous request whose processing fails is answered with an
\* error and no payload; a success answer means the upload was saved, the
\* backend returned, the artifact was written and the input removed; and
\* the only records are those of submissions.
C22_SyncFailureIsError ==
    /\ ev.op = "sync"
          => /\ ev.code \in {200, 500}
             /\ ev.code = 500 => ev.body = Null
             /\ ev.code = 200
                   => /\ ev.file \in UploadFiles(ev.cap)
                      /\ next_uuid >= 3
                      /\ UploadPath(next_uuid - 2, ev.file) \notin uploads
                      /\ Exists(OutputPath(ev.cap, next_uuid - 1))
                      /\ outputs[OutputPath(ev.cap, next_uuid - 1)] = "complete"
                      /\ (next_uuid - 1) \notin TaskIds
    /\ \A c \in Caps :
          DOMAIN tasks_store[c] = {t \in TaskIds : workers[t].cap = c}

C22_Witness ==
    /\ ev.op = "sync" /\ ev.code = 500
    /\ TaskIds = {}
    /\ \E p \in uploads : p.name = next_uuid - 2
    /\ \E p \in DOMAIN outputs : p.name = next_uuid - 1 /\ outputs[p] = "partial"

\* the well-formed lines of the input, by position, and their confidences
TextLines == {i \in DOMAIN ev.body.lines : ev.body.lines[i].kind = "ok"}

RECURSIVE SumConf(_)
SumConf(S) ==
    IF S = {} THEN 0
    ELSE LET i == CHOOSE j \in S : TRUE
         IN  ev.body.lines[i].conf + SumConf(S \ {i})

\* the result holds exactly the well-formed lines, in order
ExactlyTextLines ==
    /\ "results" \in DOMAIN ev.body.result
    /\ {ev.body.result.results[k].line : k \in DOMAIN ev.body.result.results} = TextLines
    /\ Len(ev.body.result.results) = Cardinality(TextLines)

\* C23 as stated: every null or malformed line is skipped, and the
\* aggregate confidence is the arithmetic mean of the confidences of the
\* lines included, 0 when there is none.
C23_ConfidenceIsMean ==
    ev.op = "recognize_result"
      => /\ ExactlyTextLines
         /\ TextLines = {} => ev.body.result.confidence = 0
         /\ TextLines # {}
               => 10 * ev.body.result.confidence * Cardinality(TextLines)
                    = SumConf(TextLines)

\* C23 amended: when no line carries a confidence that cannot be read as a
\* number (recognize raises on such a line), null lines and lines whose
\* parsing raises IndexError or TypeError are skipped, and the aggregate
\* confidence is the mean of the unrounded confidences of the lines
\* included, rounded to 4 decimal places, 0 when there is none.
C23_ConfidenceIsRoundedMean ==
    ev.op = "recognize_result"
      => IF \E i \in DOMAIN ev.body.lines : ev.body.lines[i].kind = "text"
         THEN "raised" \in DOMAIN ev.body.result
         ELSE /\ ExactlyTextLines
              /\ TextLines = {} => ev.body.result.confidence = 0
              /\ TextLines # {}
                    => LET n == Cardinality(TextLines)
                           d == 10 * ev.body.result.confidence * n - SumConf(TextLines)
                       IN  -5 * n <= d /\ d <= 5 * n

C23_Witness ==
    /\ ev.op = "recognize_result"
    /\ Len(ev.body.lines) = 3
    /\ ev.body.lines[1].kind = "none"
    /\ ev.body.lines[2] = [kind |-> "ok", conf |-> 33336]
    /\ ev.body.lines[3] = [kind |-> "ok", conf |-> 90008]
    /\ ev.body.result.confidence = 6167

\* C24: in any step, a task's record changes only if that task's own
\* worker takes the step, and no step is taken by two workers: a worker of
\* another task, a submission, a synchronous request, a status query or a
\* download leaves the record as it is.
C24_OnlyOwnerWrites ==
    [][ /\ \A c \in Caps : \A id \in DOMAIN tasks_store[c] :
              tasks_store'[c][id] # tasks_store[c][id]
                 => (id \in TaskIds /\ workers[id].cap = c
                     /\ workers'[id].pc # workers[id].pc)
        /\ Cardinality({t \in TaskIds : workers'[t].pc # workers[t].pc}) <= 1
      ]_vars

C24_Witness ==
    \E t \in TaskIds : \E u \in TaskIds :
        /\ t # u
        /\ workers[t].cap = workers[u].cap
        /\ workers[t].pc = "done"
        /\ workers[u].pc = "scheduled"
        /\ Record(t).status = "completed"
        /\ Record(u) = NewRecord(u)

\* C25: every record's progress lies in [0, 1]; a completed record has
\* progress 1.0 and a pending record progress 0.0.
C25_ProgressRange ==
    \A t \in TaskIds :
        /\ Record(t).progress \in P_PENDING .. P_COMPLETED
        /\ Record(t).status = "completed" => Record(t).progress = P_COMPLETED
        /\ Record(t).status = "pending" => Record(t).progress = P_PENDING

C25_Witness ==
    \E t \in TaskIds : \E u \in TaskIds :
        /\ Record(t).status = "completed" /\ Record(t).progress = P_COMPLETED
        /\ Record(u).status = "pending" /\ Record(u).progress = P_PENDING

\* C26: the paths given to uploads are pairwise distinct, also for equal
\* filenames, and keep the extension of the filename; the name of the next
\* save is held by no file and no task; a task that has not finished still
\* has its input, whatever other tasks have deleted.
C26_UploadPathsDistinct ==
    /\ \A t \in TaskIds : \A u \in TaskIds :
          t # u => workers[t].path # workers[u].path
    /\ \A t \in TaskIds :
          /\ workers[t].path.ext = workers[t].file.ext
          /\ workers[t].path.name < next_uuid
          /\ workers[t].pc # "done" => workers[t].path \in uploads
    /\ \A p \in uploads : p.name < next_uuid
    /\ \A p \in uploads : \A q \in uploads : p.name = q.name => p = q

C26_Witness ==
    \E t \in TaskIds : \E u \in TaskIds :
        /\ t # u
        /\ workers[t].file = workers[u].file
        /\ workers[t].cap = workers[u].cap
        /\ workers[t].path # workers[u].path
        /\ workers[t].pc = "done" /\ workers[t].path \notin uploads
        /\ workers[u].pc = "backend" /\ workers[u].path \in uploads

\* C27: a synchronous request, whether it succeeds or fails, leaves the
\* task records and the scheduled workers as they are, and when it answers
\* success the upload it saved is gone.
C27_SyncBypassesRegistry ==
    [][ \A c \in Caps : \A f \in UploadFiles(c) :
          (ev'.op = "sync" /\ ev'.cap = c /\ sync_request(c, f))
             => /\ UNCHANGED <<tasks_store, workers, status_log>>
                /\ ev'.code = 200
                      => /\ UploadPath(next_uuid, f) \notin uploads'
                         /\ uploads' = uploads
      ]_vars

C27_Witness ==
    /\ ev.op = "sync" /\ ev.code = 200
    /\ UploadPath(next_uuid - 2, ev.file) \notin uploads
    /\ \E t \in TaskIds : workers[t].pc = "backend" /\ workers[t].cap = ev.cap

\* C28: no step lowers the progress of a record.
C28_ProgressMonotonic ==
    [][ \A c \in Caps : \A id \in DOMAIN tasks_store[c] :
          tasks_store'[c][id].progress >= tasks_store[c][id].progress ]_vars

C28_Witness ==
    \E t \in TaskIds :
        /\ Record(t).status = "failed"
        /\ Record(t).progress = P_BACKEND_DONE
        /\ \E u \in TaskIds : Record(u).status = "completed"

\* C29: while a task's backend call is in flight its status is processing
\* and its input exists; a pending task has no backend call in flight; an
\* input is gone only when the worker has finished.
C29_BackendWhileProcessing ==
    \A t \in TaskIds :
        /\ workers[t].pc = "backend"
              => (Record(t).status = "processing" /\ workers[t].path \in uploads)
        /\ Record(t).status = "pending" => workers[t].pc = "scheduled"
        /\ workers[t].path \notin uploads => workers[t].pc = "done"

C29_Witness ==
    \E t \in TaskIds :
        /\ workers[t].pc = "backend"
        /\ workers[t].cap = "pdf"
        /\ Exists(OutputPath("pdf", t))
        /\ Record(t).status = "processing"
        /\ workers[t].path \in uploads

\* the progress last written when the given step of the worker raises
MilestoneAt(c, step) ==
    CASE step \in {"backend", "unavailable"} ->
              IF c = "pdf" THEN P_STARTED_PDF ELSE P_STARTED
      [] step = "artifact" -> P_BACKEND_DONE
      [] step = "cleanup" -> P_COMPLETED

\* C30: a failed record differs from the record at the moment of the
\* exception in status and message only: its progress is the last
\* milestone written, its task_id is its own, and its result is what it
\* was (null unless the exception came after the result was stored).
C30_FailedChangesStatusAndMessage ==
    \A t \in TaskIds :
        Record(t).status = "failed"
          => /\ workers[t].caught # Null
             /\ Record(t).message = workers[t].caught.desc
             /\ Record(t).task_id = t
             /\ Record(t).progress = MilestoneAt(workers[t].cap, workers[t].caught.step)
             /\ (TaskStatus(Record(t)).result # Null)
                    <=> (workers[t].caught.step = "cleanup")

C30_Witness ==
    \E t \in TaskIds :
        /\ Record(t).status = "failed"
        /\ workers[t].caught # Null
        /\ workers[t].caught.step = "artifact"
        /\ Record(t).progress = P_BACKEND_DONE
        /\ TaskStatus(Record(t)).result = Null

\* the artifact a completed record refers to
ArtifactOf(t) ==
    IF workers[t].cap = "pdf" THEN Record(t).result.output_path
                              ELSE Record(t).result.output_file

\* C31: the artifact paths of two distinct tasks differ, whatever their
\* capabilities; nothing is written at a task's artifact path before its
\* worker starts; and a completed record refers to the artifact at its own
\* task's path, which its worker has written completely.
C31_OwnArtifact ==
    /\ \A t \in TaskIds : \A u \in TaskIds :
          t # u => OutputPath(workers[t].cap, t) # OutputPath(workers[u].cap, u)
    /\ \A t \in TaskIds :
          /\ workers[t].pc = "scheduled" => ~Exists(OutputPath(workers[t].cap, t))
          /\ Record(t).status = "completed"
                => /\ ArtifactOf(t) = OutputPath(workers[t].cap, t)
                   /\ Exists(ArtifactOf(t))
                   /\ outputs[ArtifactOf(t)] = "complete"
    /\ \A p \in DOMAIN outputs :
          p.name \in TaskIds => p = OutputPath(workers[p.name].cap, p.name)

C31_Witness ==
    \E t \in TaskIds : \E u \in TaskIds :
        /\ workers[t].cap = "asr" /\ workers[u].cap = "pdf"
        /\ Record(t).status = "completed" /\ Record(u).status = "completed"
        /\ ArtifactOf(t) # ArtifactOf(u)
        /\ Exists(ArtifactOf(t)) /\ Exists(ArtifactOf(u))

\* the files of the request the handler has been through
Handled == 1 .. Len(ev.body.results)

\* C32: the list a batch recognition builds has one response for each file
\* handled so far, in the order of the files, and the list returned has one
\* for every file of the request, whatever failed on the way; the response
\* at the position of a file that is no image is a failure naming that
\* file, a success carries the text of the file at its position; and only
\* images are saved or handed to the backend, at most one save and one
\* artifact name for each image handled.
C32_BatchOnePerFile ==
    (ev.op \in {"batch_loop", "batch_response"} /\ ev.code # 503)
      => /\ Len(ev.body.results) = ev.body.i - 1
         /\ ev.body.i <= Len(ev.body.files) + 1
         /\ ev.op = "batch_response" => Len(ev.body.results) = Len(ev.body.files)
         /\ \A k \in Handled :
               LET f == ev.body.files[k]
                   r == ev.body.results[k]
               IN  /\ Lower(f.ext) \notin ALLOWED_EXTENSIONS
                         => (~r.success /\ r.message = UNSUPPORTED_MESSAGE
                             /\ r.about = f /\ r.data = {})
                   /\ r.success
                         => (Lower(f.ext) \in ALLOWED_EXTENSIONS
                             /\ \A d \in r.data : \A j \in DOMAIN d :
                                    d[j].text = f.content)
                   /\ r.success <=> r.data # {}
         /\ \A j \in DOMAIN ev.body.calls :
               Lower(ev.body.calls[j].ext) \in ALLOWED_EXTENSIONS
         /\ \A p \in uploads : Lower(p.ext) \in ALLOWED_EXTENSIONS
         /\ Len(ev.body.calls)
               <= Cardinality({k \in Handled :
                                 Lower(ev.body.files[k].ext) \in ALLOWED_EXTENSIONS})
         /\ next_uuid - 1
               <= 2 * Cardinality({k \in Handled :
                                     Lower(ev.body.files[k].ext) \in ALLOWED_EXTENSIONS})

C32_Witness ==
    /\ ev.op = "batch_response" /\ ev.code = 200
    /\ Len(ev.body.files) = 3
    /\ ev.body.files[1].ext = UNSUPPORTED_EXT
    /\ ~ev.body.results[1].success
    /\ ev.body.files[2].ext = ".PNG"
    /\ ~ev.body.results[2].success
    /\ ev.body.results[2].message = RECOGNIZE_FAILED
    /\ ev.body.results[3].success
    /\ Len(ev.body.calls) = 2

\* C33: a task is in the registry of its own capability and in no other:
\* its own capability answers a status query for it with 200, every other
\* capability answers status and download queries for it with 404; and a
\* submission to one capability leaves the registries of the others as
\* they are.
C33_RegistriesSeparate ==
    /\ [](\A t \in TaskIds :
            /\ StatusResponse(workers[t].cap, t).code = 200
            /\ \A c \in Caps \ {workers[t].cap} :
                  /\ t \notin DOMAIN tasks_store[c]
                  /\ StatusResponse(c, t).code = 404
                  /\ DownloadResponse(c, t).code = 404)
    /\ [][ \A c \in Caps : \A f \in UploadFiles(c) :
            (ev'.op = "submit" /\ ev'.cap = c /\ submit_async(c, f))
               => \A k \in Caps \ {c} : tasks_store'[k] = tasks_store[k]
        ]_vars

C33_Witness ==
    \E t \in TaskIds : \E u \in TaskIds :
        /\ workers[t].cap = "ocr" /\ workers[u].cap = "pdf"
        /\ Record(t).status = "completed"
        /\ DownloadResponse("ocr", t).code = 200
        /\ DownloadResponse("pdf", t).code = 404
        /\ StatusResponse("pdf", t).code = 404
        /\ StatusResponse("ocr", u).code = 404
        /\ ev.op = "submit" /\ ev.cap = "pdf" /\ ev.id = u

\* C34: every conversion that returns a result reports at least 1 and at
\* most page_count converted pages, whatever start_page and end_page were
\* asked for.
C34_ConvertedPagesInRange ==
    (ev.op = "convert_result" /\ "converted_pages" \in DOMAIN ev.body.result)
      => /\ ev.body.result.converted_pages >= 1
         /\ ev.body.result.converted_pages <= ev.body.result.page_count
====
